---------------------------- MODULE Spec2Model ----------------------------
(***************************************************************************)
(* A model of the wayvnc control-socket server, src/src/ctl-server.c:      *)
(* the per-client read buffer and incremental JSON extraction, the command *)
(* parser and dispatcher, the outbound response queue with its partial     *)
(* write cursor, event broadcast and server shutdown.                      *)
(*                                                                         *)
(* C strings are sequences of one-character strings; a NULL pointer is the *)
(* value NULL, which is no C string.  Bytes on the wire are records: a     *)
(* JSON object is the bytes  body pad* close  where the body byte stands   *)
(* for the opening brace and the members it decodes to.                    *)
(***************************************************************************)
EXTENDS Integers, Sequences, FiniteSets, TLC

\* ---------------------------------------------------------------- bounds
\* Client slots the listening socket hands out over a run.
MaxClients == 2
\* Items (requests, garbage) the peer of the first client writes over a run
\* that accepts no other client.
MaxItems == 2
\* Events the embedder broadcasts over a run.
MaxEvents == 1
\* sizeof(read_buffer), scaled down from 512 bytes.
BufSize == 4
\* Internal errors one client is sent over a run.
MaxFatal == 2
\* Calls of recv that fail with an error other than EAGAIN over a run.
MaxRecvErrors == 1

\* ------------------------------------------------------- program constants
\* sizeof(cmd_help.id)
HelpIdSize == 64
\* sizeof(cmd_set_output.target)
TargetSize == 64

\* ---------------------------------------------------------------- strings
NULL == <<"NULL">>
\* A NULL pointer to a struct or to a JSON value.
NIL == [nil |-> TRUE]
\* A JSON member that is present but is not a string.
NONSTR == <<"NONSTR">>

Min(a, b) == IF a <= b THEN a ELSE b

S_help == <<"h","e","l","p">>
S_version == <<"v","e","r","s","i","o","n">>
S_event_receive == <<"e","v","e","n","t","-","r","e","c","e","i","v","e">>
S_set_output == <<"s","e","t","-","o","u","t","p","u","t">>
S_client_connected ==
    <<"c","l","i","e","n","t","-","c","o","n","n","e","c","t","e","d">>
S_client_disconnected ==
    <<"c","l","i","e","n","t","-","d","i","s","c","o","n","n","e","c","t","e","d">>
S_prev == <<"p","r","e","v">>
S_next == <<"n","e","x","t">>
S_empty == <<>>

\* strcmp(a, b) == 0
StrEq(a, b) == a = b

\* strncmp with a slip: one character fewer is compared.
StrnEq_fewer(a, b, n) ==
    LET la == Min(Len(a), n - 1)
        lb == Min(Len(b), n - 1)
    IN  la = lb /\ SubSeq(a, 1, la) = SubSeq(b, 1, lb)

\* strncmp(a, b, n) == 0: the first n characters agree, a terminator counting
\* as a character that ends the comparison.
StrnEq(a, b, n) ==
    LET la == Min(Len(a), n)
        lb == Min(Len(b), n)
    IN  la = lb /\ SubSeq(a, 1, la) = SubSeq(b, 1, lb)

\* strlcpy(dst, src, size): at most size - 1 characters are copied.
Strlcpy(src, size) == SubSeq(src, 1, Min(Len(src), size - 1))

\* --------------------------------------------------------------- registry
CMD_ORDER == <<"CMD_HELP", "CMD_VERSION", "CMD_EVENT_RECEIVE", "CMD_SET_OUTPUT">>

CMD_LIST_LEN == Len(CMD_ORDER)

cmd_list ==
    << [name |-> S_help,
        description |-> "List all commands and events, or show usage of a specific command or event",
        params |-> <<"command", "event">>],
       [name |-> S_version,
        description |-> "Query the version of the wayvnc process",
        params |-> <<>>],
       [name |-> S_event_receive,
        description |-> "Register to begin receiving asynchronous events from wayvnc",
        params |-> <<>>],
       [name |-> S_set_output,
        description |-> "Switch the actively captured output",
        params |-> <<"switch-to", "cycle">>] >>

EVT_LIST_LEN == 2

evt_list ==
    << [name |-> S_client_connected,
        description |-> "Sent when a new vnc client connects to wayvnc",
        params |-> <<"id", "connection_count", "hostname", "username">>],
       [name |-> S_client_disconnected,
        description |-> "Sent when a vnc client disconnects from wayvnc",
        params |-> <<"id", "connection_count", "hostname", "username">>] >>

\* The first index i in 1..len with list[i].name = name, or 0.
RECURSIVE ScanFrom(_, _, _, _)
ScanFrom(list, len, name, i) ==
    IF i > len THEN 0
    ELSE IF StrEq(name, list[i].name) THEN i
    ELSE ScanFrom(list, len, name, i + 1)

parse_command_name(name) ==
    IF name = NULL \/ name = S_empty THEN "CMD_UNKNOWN"
    ELSE LET i == ScanFrom(cmd_list, CMD_LIST_LEN, name, 1)
         IN  IF i = 0 THEN "CMD_UNKNOWN" ELSE CMD_ORDER[i]

\* list_allowed with a slip: the last name is left out.
list_allowed_short(list, len) == [i \in 1..(len - 1) |-> list[i].name]

list_allowed(list, len) == [i \in 1..len |-> list[i].name]

list_allowed_commands == list_allowed(cmd_list, CMD_LIST_LEN)

list_allowed_events == list_allowed(evt_list, EVT_LIST_LEN)

find_info(id, list, len) ==
    LET i == ScanFrom(list, len, id, 1)
    IN  IF i = 0 THEN NIL ELSE list[i]

\* ---------------------------------------------------------------- commands
\* struct cmd and its variants, as calloc leaves them: empty strings, the
\* zero enumerator of output_cycle_direction, false.
ZeroCmd(type) ==
    [type |-> type, id |-> S_empty, id_is_command |-> FALSE,
     target |-> S_empty, cycle |-> "OUTPUT_CYCLE_FORWARD"]

JsonipcError(code, text) == [code |-> code, data |-> [error |-> text]]

Parsed(cmd) == [ok |-> TRUE, cmd |-> cmd]

Rejected(err) == [ok |-> FALSE, err |-> err]

\* json_unpack(args, "{s?s, s?s}", k1, k2) == -1
UnpackFails(args, v1, v2) ==
    \/ ~args.present
    \/ v1 = NONSTR
    \/ v2 = NONSTR

cmd_help_new(args) ==
    IF args.present /\ UnpackFails(args, args.command, args.event)
    THEN Rejected(JsonipcError("EINVAL",
             "expecting \"command\" or \"event\" (optional)"))
    ELSE LET command == args.command
             event == args.event
             cmd == ZeroCmd("CMD_HELP")
         IN  IF command # NULL /\ event # NULL
             THEN Rejected(JsonipcError("EINVAL",
                      "expecting exacly one of \"command\" or \"event\""))
             ELSE IF command # NULL
             THEN Parsed([cmd EXCEPT !.id = Strlcpy(command, HelpIdSize),
                                     !.id_is_command = TRUE])
             ELSE IF event # NULL
             THEN Parsed([cmd EXCEPT !.id = Strlcpy(event, HelpIdSize),
                                     !.id_is_command = FALSE])
             ELSE Parsed(cmd)

\* cmd_set_output_new with a slip: "switch-to" and "cycle" may come together.
cmd_set_output_new_lax(args) ==
    IF UnpackFails(args, args.switch_to, args.cycle)
    THEN Rejected(JsonipcError("EINVAL",
             "expecting \"switch-to\" or \"cycle\""))
    ELSE LET target == args.switch_to
             cycle == args.cycle
             cmd == ZeroCmd("CMD_SET_OUTPUT")
         IN  IF target = NULL /\ cycle = NULL
             THEN Rejected(JsonipcError("EINVAL",
                      "expecting exactly one of \"switch-to\" or \"cycle\""))
             ELSE IF target # NULL
             THEN Parsed([cmd EXCEPT !.target = Strlcpy(target, TargetSize)])
             ELSE IF StrnEq(cycle, S_prev, 4)
             THEN Parsed([cmd EXCEPT !.cycle = "OUTPUT_CYCLE_REVERSE"])
             ELSE IF StrEq(cycle, S_next)
             THEN Parsed([cmd EXCEPT !.cycle = "OUTPUT_CYCLE_FORWARD"])
             ELSE Rejected(JsonipcError("EINVAL",
                      "cycle must either be \"next\" or \"prev\""))

cmd_set_output_new(args) ==
    IF UnpackFails(args, args.switch_to, args.cycle)
    THEN Rejected(JsonipcError("EINVAL",
             "expecting \"switch-to\" or \"cycle\""))
    ELSE LET target == args.switch_to
             cycle == args.cycle
             cmd == ZeroCmd("CMD_SET_OUTPUT")
         IN  IF (target = NULL /\ cycle = NULL) \/ (target # NULL /\ cycle # NULL)
             THEN Rejected(JsonipcError("EINVAL",
                      "expecting exactly one of \"switch-to\" or \"cycle\""))
             ELSE IF target # NULL
             THEN Parsed([cmd EXCEPT !.target = Strlcpy(target, TargetSize)])
             ELSE IF StrnEq(cycle, S_prev, 4)
             THEN Parsed([cmd EXCEPT !.cycle = "OUTPUT_CYCLE_REVERSE"])
             ELSE IF StrEq(cycle, S_next)
             THEN Parsed([cmd EXCEPT !.cycle = "OUTPUT_CYCLE_FORWARD"])
             ELSE Rejected(JsonipcError("EINVAL",
                      "cycle must either be \"next\" or \"prev\""))

parse_command(ipc) ==
    LET cmd_type == parse_command_name(ipc.method)
    IN  CASE cmd_type = "CMD_HELP" -> cmd_help_new(ipc.params)
          [] cmd_type = "CMD_SET_OUTPUT" -> cmd_set_output_new(ipc.params)
          [] cmd_type \in {"CMD_VERSION", "CMD_EVENT_RECEIVE"} ->
                 Parsed(ZeroCmd(cmd_type))
          [] OTHER ->
                 Rejected([code |-> "ENOENT",
                           data |-> [error |-> "Unknown command",
                                     name |-> ipc.method,
                                     commands |-> list_allowed_commands]])


\* --------------------------------------------------------------- responses
cmd_response_new(code, data) == [code |-> code, data |-> data]

cmd_ok == cmd_response_new("0", NIL)

cmd_failed(text) == cmd_response_new("1", [error |-> text])

\* Outputs the embedding process knows by name.
KnownOutputs == { <<"e","D","P","-","1">> }

\* The action callbacks of the embedding process.
on_output_switch(target) ==
    IF target \in KnownOutputs THEN cmd_ok ELSE cmd_failed("No such output")

on_output_cycle(direction) == cmd_ok

Call(fn, arg) == [fn |-> fn, arg |-> arg]

\* generate_help_object with a slip: the name is looked up in both halves.
generate_help_object_any(id, id_is_command) ==
    LET c == find_info(id, cmd_list, CMD_LIST_LEN)
        e == find_info(id, evt_list, EVT_LIST_LEN)
        info == IF c # NIL THEN c ELSE e
        data == IF info = NIL
                THEN [commands |-> list_allowed_commands,
                      events |-> list_allowed_events]
                ELSE [name |-> info.name, description |-> info.description,
                      params |-> info.params]
    IN  [cmd_ok EXCEPT !.data = data]

generate_help_object(id, id_is_command) ==
    LET info == IF id_is_command
                THEN find_info(id, cmd_list, CMD_LIST_LEN)
                ELSE find_info(id, evt_list, EVT_LIST_LEN)
        data == IF info = NIL
                THEN [commands |-> list_allowed_commands,
                      events |-> list_allowed_events]
                ELSE [name |-> info.name, description |-> info.description,
                      params |-> info.params]
    IN  [cmd_ok EXCEPT !.data = data]

generate_version_object ==
    [cmd_ok EXCEPT !.data = [wayvnc |-> "wayvnc_version",
                             neatvnc |-> "nvnc_version",
                             aml |-> "aml_version"]]

\* The response of a command, the callbacks it invokes and whether it sets
\* the client's accept_events.
Dispatched(response, calls, accept) ==
    [response |-> response, calls |-> calls, accept |-> accept]

ctl_server_dispatch_cmd(cmd) ==
    CASE cmd.type = "CMD_HELP" ->
             Dispatched(generate_help_object(cmd.id, cmd.id_is_command),
                        <<>>, FALSE)
      [] cmd.type = "CMD_SET_OUTPUT" ->
             IF cmd.target # S_empty
             THEN Dispatched(on_output_switch(cmd.target),
                             <<Call("on_output_switch", cmd.target)>>, FALSE)
             ELSE Dispatched(on_output_cycle(cmd.cycle),
                             <<Call("on_output_cycle", cmd.cycle)>>, FALSE)
      [] cmd.type = "CMD_VERSION" ->
             Dispatched(generate_version_object, <<>>, FALSE)
      [] cmd.type = "CMD_EVENT_RECEIVE" ->
             Dispatched(cmd_ok, <<>>, TRUE)
      [] OTHER -> Dispatched(NIL, <<>>, FALSE)

\* ------------------------------------------------------------ wire envelope
NoId == <<>>

\* A decoded JSON object: its "method" (NULL unless a string), its "params"
\* and its "id" (NoId when absent).
Root(method, params, id) == [method |-> method, params |-> params, id |-> id]

\* A "params" object: its members "switch-to", "cycle", "command" and
\* "event", each a string, NONSTR, or NULL when absent.
Params(switch_to, cycle, command, event) ==
    [present |-> TRUE, switch_to |-> switch_to, cycle |-> cycle,
     command |-> command, event |-> event]

\* No "params" member: json_unpack is given a NULL root and finds no member.
NoParams ==
    [present |-> FALSE, switch_to |-> NULL, cycle |-> NULL,
     command |-> NULL, event |-> NULL]

\* jsonipc_request_parse_new: the object must hold a string "method".
jsonipc_request_parse_new(root) ==
    IF root.method = NULL
    THEN Rejected(JsonipcError("EINVAL", "Object item not found: method"))
    ELSE [ok |-> TRUE, request |-> root]

jsonipc_response_new(code, data, id) ==
    [kind |-> "response", code |-> code, data |-> data, id |-> id]

jsonipc_error_response_new(err, id) ==
    jsonipc_response_new(err.code, err.data, id)

jsonipc_event_new(event_name, params) ==
    [kind |-> "event", method |-> event_name, params |-> params]

\* set_internal_error: the response a connection-fatal condition composes.
set_internal_error(code, text) == cmd_response_new(code, [error |-> text])

InternalErrorTexts == {"Buffer overflow", "Read failed", "invalid json"}

IsInternalError(m) ==
    /\ m.kind = "response"
    /\ m.code \in {"EIO", "EINVAL"}
    /\ m.data \in {[error |-> t] : t \in InternalErrorTexts}

\* ---------------------------------------------------------------- the codec
CLOSE == [b |-> "}"]

\* Member text of an object beyond what the body byte stands for.
PAD == [b |-> "pad"]

\* A byte no JSON text starts with.
JUNK == [b |-> "junk"]

Body(root) == [b |-> "body", root |-> root]

Pads(n) == [i \in 1..n |-> PAD]

\* The request bytes of a decoded object, with n bytes of further members.
EncodeRequest(root, n) == <<Body(root)>> \o Pads(n) \o <<CLOSE>>

\* The index of the first byte at or after i that is no PAD, or Len(buf) + 1.
RECURSIVE SkipPads(_, _)
SkipPads(buf, i) ==
    IF i > Len(buf) THEN i
    ELSE IF buf[i] = PAD THEN SkipPads(buf, i + 1)
    ELSE i

\* json_loadb(buf, len, JSON_DISABLE_EOF_CHECK, &err): one value is decoded
\* from the head of the buffer and err.position is the bytes it took.
json_loadb(buf) ==
    LET premature == [root |-> NIL, code |-> "json_error_premature_end_of_input"]
        invalid == [root |-> NIL, code |-> "json_error_invalid_syntax"]
    IN  IF Len(buf) = 0 THEN premature
        ELSE IF buf[1].b # "body" THEN invalid
        ELSE LET j == SkipPads(buf, 2)
             IN  IF j > Len(buf) THEN premature
                 ELSE IF buf[j] = CLOSE
                 THEN [root |-> buf[1].root, position |-> j]
                 ELSE invalid

\* json_dumpb(item, buffer, size, JSON_COMPACT)
json_dumpb(item) == <<[b |-> "text", item |-> item], CLOSE>>

\* advance_read_buffer: the consumed bytes leave the head of the buffer and
\* the rest moves down.
advance_read_buffer(buf, n) == SubSeq(buf, n + 1, Len(buf))


\* ------------------------------------------------------------------- state
Clients == 1..MaxClients

VARIABLES
    stopped,      \* ctl_server_stop has run
    st,           \* per slot: "free" (never accepted), "live" (in server->clients), "gone"
    cl,           \* per slot: the struct ctl_client
    net_in,       \* per slot: bytes the peer has written and recv has not taken yet
    peer_closed,  \* per slot: the peer has shut its end down
    enqueued,     \* what ctl_server_enqueue_event returned last
    nconn,        \* connections the listening socket takes over the run
    menu,         \* what the peers write over the run: "framing", "commands" or "names"
    alloc_fails,  \* whether allocations may fail over the run
    budget,       \* per slot: items the peer may still write
    nevents,      \* events broadcast so far
    nrecverrs,    \* failed calls of recv so far
    stream,       \* history, per slot: the items the peer has written
    nrecv,        \* history, per slot: bytes recv has delivered
    roots,        \* history, per slot: the objects client_next_object returned
    dispatched,   \* history, per slot: the commands given to ctl_server_dispatch_cmd
    calls,        \* history: the action callbacks invoked
    enq,          \* history, per slot: the messages given to client_enqueue
    deq,          \* history, per slot: the messages send_ready took off the queue
    wire,         \* history, per slot: the bytes send has put on the socket
    closed_by,    \* history, per slot: what destroyed the client
    stale,        \* history: the accesses made to a client after free(self)
    aborted       \* the process has died of an access to freed memory

vars == <<stopped, st, cl, net_in, peer_closed, enqueued, nconn, menu, budget,
          nevents, nrecverrs, stream, nrecv, roots, dispatched, calls,
          enq, deq, wire, closed_by, alloc_fails, stale, aborted>>

\* What a run is set up with.
config == <<nconn, menu, alloc_fails>>

\* What undefined behaviour has done.
ub == <<stale, aborted>>

\* What the peers have done.
peers == <<net_in, peer_closed, budget, stream>>

\* What recv_ready alone extends.
rhist == <<nrecv, roots, dispatched, calls>>

\* What send_ready alone extends.
shist == <<deq, wire>>

\* calloc(1, sizeof(struct ctl_client)), json_array() and the mask of a new
\* aml handler.
NewClient ==
    [read_buffer |-> <<>>, response_queue |-> <<>>,
     write_buffer |-> NULL, write_ptr |-> NIL, write_len |-> 0,
     drop_after_next_send |-> FALSE, accept_events |-> FALSE,
     mask |-> {"AML_EVENT_READ"}]

read_len(self) == Len(self.read_buffer)

\* ------------------------------------------------------------ client steps
\* client_set_aml_event_mask with a slip: a partially sent buffer does not
\* count as something to send.
client_set_aml_event_mask_queue_only(self) ==
    [self EXCEPT !.mask =
        IF Len(self.response_queue) > 0
        THEN {"AML_EVENT_READ", "AML_EVENT_WRITE"}
        ELSE {"AML_EVENT_READ"}]

client_set_aml_event_mask(self) ==
    [self EXCEPT !.mask =
        IF Len(self.response_queue) > 0 \/ self.write_len # 0
        THEN {"AML_EVENT_READ", "AML_EVENT_WRITE"}
        ELSE {"AML_EVENT_READ"}]

json_array_insert(queue, message) == <<message>> \o queue

\* json_array_append with a slip: the message goes to the front.
json_array_append_front(queue, message) == <<message>> \o queue

json_array_append(queue, message) == Append(queue, message)

\* client_enqueue with a slip: every message goes to the back.
client_enqueue_back(self, message, priority) ==
    client_set_aml_event_mask(
        [self EXCEPT !.response_queue =
            json_array_append(self.response_queue, message)])

client_enqueue(self, message, priority) ==
    client_set_aml_event_mask(
        [self EXCEPT !.response_queue =
            IF priority = "SEND_IMMEDIATE"
            THEN json_array_insert(self.response_queue, message)
            ELSE json_array_append(self.response_queue, message)])

Enqueued(message, priority) == [msg |-> message, priority |-> priority]

\* The state one invocation of recv_ready works on: the client and the
\* histories it extends.
Work(self, c) ==
    [self |-> self, roots |-> roots[c], dispatched |-> dispatched[c],
     calls |-> calls, enq |-> enq[c], details |-> NIL]

WorkEnqueue(w, message, priority) ==
    [w EXCEPT !.self = client_enqueue(w.self, message, priority),
              !.enq = Append(w.enq, Enqueued(message, priority))]

client_enqueue_error(w, err, id) ==
    WorkEnqueue(w, jsonipc_error_response_new(err, id), "SEND_FIFO")

client_enqueue_response(w, response, id) ==
    WorkEnqueue(w, jsonipc_response_new(response.code, response.data, id),
                "SEND_FIFO")

\* client_enqueue_internal_error with a slip: the client is not marked.
client_enqueue_internal_error_unmarked(w, err) ==
    WorkEnqueue(w, jsonipc_response_new(err.code, err.data, NoId),
                "SEND_IMMEDIATE")

client_enqueue_internal_error(w, err) ==
    LET w1 == WorkEnqueue(w, jsonipc_response_new(err.code, err.data, NoId),
                          "SEND_IMMEDIATE")
    IN  [w1 EXCEPT !.self.drop_after_next_send = TRUE]

\* client_next_object with a slip: an incomplete object is dropped from the
\* read buffer instead of being kept for the next read.
client_next_object_forgets(self) ==
    IF read_len(self) = 0
    THEN [root |-> NIL, self |-> self, ierr |-> NIL]
    ELSE LET r == json_loadb(self.read_buffer)
         IN  IF r.root # NIL
             THEN [root |-> r.root,
                   self |-> [self EXCEPT !.read_buffer =
                                advance_read_buffer(self.read_buffer, r.position)],
                   ierr |-> NIL]
             ELSE IF r.code = "json_error_premature_end_of_input"
             THEN [root |-> NIL, self |-> [self EXCEPT !.read_buffer = <<>>],
                   ierr |-> NIL]
             ELSE [root |-> NIL, self |-> self,
                   ierr |-> set_internal_error("EINVAL", "invalid json")]

\* client_next_object: the next object and the buffer it leaves, or NULL and
\* the internal error, if any.
client_next_object(self) ==
    IF read_len(self) = 0
    THEN [root |-> NIL, self |-> self, ierr |-> NIL]
    ELSE LET r == json_loadb(self.read_buffer)
         IN  IF r.root # NIL
             THEN [root |-> r.root,
                   self |-> [self EXCEPT !.read_buffer =
                                advance_read_buffer(self.read_buffer, r.position)],
                   ierr |-> NIL]
             ELSE IF r.code = "json_error_premature_end_of_input"
             THEN [root |-> NIL, self |-> self, ierr |-> NIL]
             ELSE [root |-> NIL, self |-> self,
                   ierr |-> set_internal_error("EINVAL", "invalid json")]

\* HandleRoot with a slip: event-receive flips accept_events instead of
\* setting it.
HandleRoot_flips(w, c, root) ==
    LET req == jsonipc_request_parse_new(root)
    IN  IF ~req.ok THEN client_enqueue_error(w, req.err, NoId)
        ELSE LET p == parse_command(req.request)
             IN  IF ~p.ok THEN client_enqueue_error(w, p.err, req.request.id)
                 ELSE LET d == ctl_server_dispatch_cmd(p.cmd)
                          n == Len(w.roots)
                          w1 == [w EXCEPT
                                   !.dispatched = Append(@, p.cmd),
                                   !.calls = @ \o [i \in 1..Len(d.calls) |->
                                       [client |-> c, root |-> n,
                                        fn |-> d.calls[i].fn,
                                        arg |-> d.calls[i].arg]],
                                   !.self.accept_events = (@ # d.accept)]
                      IN  IF d.response = NIL THEN w1
                          ELSE client_enqueue_response(w1, d.response,
                                                       req.request.id)

\* One pass of the body of recv_ready's loop for an extracted object.
HandleRoot(w, c, root) ==
    LET req == jsonipc_request_parse_new(root)
    IN  IF ~req.ok THEN client_enqueue_error(w, req.err, NoId)
        ELSE LET p == parse_command(req.request)
             IN  IF ~p.ok THEN client_enqueue_error(w, p.err, req.request.id)
                 ELSE LET d == ctl_server_dispatch_cmd(p.cmd)
                          n == Len(w.roots)
                          w1 == [w EXCEPT
                                   !.dispatched = Append(@, p.cmd),
                                   !.calls = @ \o [i \in 1..Len(d.calls) |->
                                       [client |-> c, root |-> n,
                                        fn |-> d.calls[i].fn,
                                        arg |-> d.calls[i].arg]],
                                   !.self.accept_events = @ \/ d.accept]
                      IN  IF d.response = NIL THEN w1
                          ELSE client_enqueue_response(w1, d.response,
                                                       req.request.id)

\* recv_ready's loop, from the state a successful read leaves.
RECURSIVE RecvLoop(_, _)
RecvLoop(w, c) ==
    LET o == client_next_object(w.self)
    IN  IF o.root = NIL
        THEN [w EXCEPT !.self = o.self, !.details = o.ierr]
        ELSE RecvLoop(HandleRoot([w EXCEPT !.self = o.self,
                                           !.roots = Append(@, o.root)],
                                 c, o.root), c)

\* RecvData with a slip: the bytes read are stored at the head of the read
\* buffer, before the bytes it holds.
RecvData_at_head(w, c, data) ==
    LET w1 == RecvLoop([w EXCEPT !.self.read_buffer = data \o @], c)
    IN  IF w1.details # NIL
        THEN client_enqueue_internal_error(w1, w1.details)
        ELSE w1

\* recv_ready after client_read has returned n > 0 with the bytes data.
RecvData(w, c, data) ==
    LET w1 == RecvLoop([w EXCEPT !.self.read_buffer = @ \o data], c)
    IN  IF w1.details # NIL
        THEN client_enqueue_internal_error(w1, w1.details)
        ELSE w1


\* -------------------------------------------------------------- the peers
\* What a peer writes in one go: the bytes, and the object they are the
\* complete text of (NIL when they are none).
Item(bytes, root) == [bytes |-> bytes, root |-> root]

EDP1 == <<"e","D","P","-","1">>

S_bogus == <<"b","o","g","u","s">>

\* The requests peers send in the specification Spec, with the given id.
MainRoots(id) ==
    { Root(S_event_receive, NoParams, id),
      Root(S_set_output, Params(EDP1, NULL, NULL, NULL), id),
      Root(S_bogus, NoParams, id) }

MainItems(id) ==
    { Item(EncodeRequest(r, 0), r) : r \in MainRoots(id) }
    \cup { \* an object with an "id" and no "method"
           Item(EncodeRequest(Root(NULL, NoParams, id), 0),
                Root(NULL, NoParams, id)),
           \* a request that fills the read buffer exactly
           Item(EncodeRequest(Root(S_version, NoParams, id), BufSize - 2),
                Root(S_version, NoParams, id)),
           \* a request one byte longer than the read buffer
           Item(EncodeRequest(Root(S_version, NoParams, id), BufSize - 1), NIL),
           \* a request cut short after its first byte
           Item(<<Body(Root(S_version, NoParams, id))>>, NIL),
           Item(<<JUNK>>, NIL) }

\* The requests the peers of the other clients send.
OtherItems(id) ==
    { Item(EncodeRequest(r, 0), r) : r \in {Root(S_event_receive, NoParams, id)} }

HDMI == <<"H","D","M","I">>

\* An output name of n characters.
LongName(n) == [i \in 1..n |-> "a"]

S_previous == <<"p","r","e","v","i","o","u","s">>

S_sideways == <<"s","i","d","e","w","a","y","s">>

\* The "params" of the set-output and help requests peers send in the
\* specification CmdSpec.
SetOutputParams ==
    { Params(EDP1, NULL, NULL, NULL),
      Params(HDMI, NULL, NULL, NULL),
      Params(S_empty, NULL, NULL, NULL),
      Params(LongName(TargetSize), NULL, NULL, NULL),
      Params(NONSTR, NULL, NULL, NULL),
      Params(NULL, S_next, NULL, NULL),
      Params(NULL, S_prev, NULL, NULL),
      Params(NULL, S_previous, NULL, NULL),
      Params(NULL, S_sideways, NULL, NULL),
      Params(EDP1, S_next, NULL, NULL),
      Params(NULL, NULL, NULL, NULL),
      NoParams }

HelpParams ==
    { Params(NULL, NULL, S_set_output, NULL),
      Params(NULL, NULL, S_version, S_client_connected) }

CmdRoots(id) ==
    { Root(S_set_output, p, id) : p \in SetOutputParams }
    \cup { Root(S_help, p, id) : p \in HelpParams }
    \cup { Root(S_version, NoParams, id),
           Root(S_bogus, NoParams, id),
           Root(NULL, NoParams, id) }

CmdItems(id) == { Item(EncodeRequest(r, 0), r) : r \in CmdRoots(id) }

S_Next == <<"N","e","x","t">>

S_nextx == <<"n","e","x","t","x">>

S_pre == <<"p","r","e">>

\* The requests peers send in the specification NameSpec: help for names
\* in and out of each half of the registry, methods in and out of cmd_list,
\* and set-output with values of "cycle".
LookupNames ==
    { S_set_output, S_help, S_client_connected, S_client_disconnected,
      S_bogus, S_empty, LongName(HelpIdSize) }

MethodNames == { S_version, S_client_connected, S_bogus, S_empty, NULL }

CycleValues ==
    { S_next, S_prev, S_previous, S_sideways, S_Next, S_nextx, S_pre, S_empty }

NameRoots(id) ==
    { Root(S_help, Params(NULL, NULL, n, NULL), id) : n \in LookupNames }
    \cup { Root(S_help, Params(NULL, NULL, NULL, n), id) : n \in LookupNames }
    \cup { Root(S_help, NoParams, id),
           Root(S_help, Params(NULL, NULL, NULL, NULL), id) }
    \cup { Root(m, NoParams, id) : m \in MethodNames }
    \cup { Root(S_set_output, Params(NULL, v, NULL, NULL), id) : v \in CycleValues }

NameItems(id) == { Item(EncodeRequest(r, 0), r) : r \in NameRoots(id) }

ItemsOf(c, id) ==
    IF menu = "commands" THEN CmdItems(id)
    ELSE IF menu = "names" THEN NameItems(id)
    ELSE IF c = 1 THEN MainItems(id) ELSE OtherItems(id)

\* ----------------------------------------------------------------- actions
Start ==
    /\ stopped = FALSE
    /\ st = [c \in Clients |-> "free"]
    /\ cl = [c \in Clients |-> NewClient]
    /\ net_in = [c \in Clients |-> <<>>]
    /\ peer_closed = [c \in Clients |-> FALSE]
    /\ enqueued = 0
    /\ nevents = 0
    /\ nrecverrs = 0
    /\ stream = [c \in Clients |-> <<>>]
    /\ nrecv = [c \in Clients |-> 0]
    /\ roots = [c \in Clients |-> <<>>]
    /\ dispatched = [c \in Clients |-> <<>>]
    /\ calls = <<>>
    /\ enq = [c \in Clients |-> <<>>]
    /\ deq = [c \in Clients |-> <<>>]
    /\ wire = [c \in Clients |-> <<>>]
    /\ closed_by = [c \in Clients |-> "none"]
    /\ stale = {}
    /\ aborted = FALSE

\* One client, whose peer writes up to MaxItems items.
Init ==
    /\ Start
    /\ nconn = 1
    /\ alloc_fails = FALSE
    /\ menu = "framing"
    /\ budget = [c \in Clients |-> IF c = 1 THEN MaxItems ELSE 0]

\* MaxClients clients, whose peers write one item each.
InitMulti ==
    /\ Start
    /\ nconn = MaxClients
    /\ alloc_fails = FALSE
    /\ menu = "framing"
    /\ budget = [c \in Clients |-> 1]

\* One client, whose peer writes up to MaxItems whole requests.
InitCmd ==
    /\ Start
    /\ nconn = 1
    /\ alloc_fails = FALSE
    /\ menu = "commands"
    /\ budget = [c \in Clients |-> IF c = 1 THEN MaxItems ELSE 0]

\* One client, whose peer writes one whole request.
InitNames ==
    /\ Start
    /\ nconn = 1
    /\ alloc_fails = FALSE
    /\ menu = "names"
    /\ budget = [c \in Clients |-> IF c = 1 THEN 1 ELSE 0]

\* One client, whose peer writes up to MaxItems items, in a process whose
\* allocations may fail.
InitFail ==
    /\ Start
    /\ nconn = 1
    /\ alloc_fails = TRUE
    /\ menu = "framing"
    /\ budget = [c \in Clients |-> IF c = 1 THEN MaxItems ELSE 0]

\* on_connection: the accepted client joins server->clients.
on_connection ==
    /\ ~stopped
    /\ ~aborted
    /\ \E c \in Clients :
        /\ c <= nconn
        /\ st[c] = "free"
        /\ \A d \in Clients : d < c => st[d] # "free"
        /\ st' = [st EXCEPT ![c] = "live"]
        /\ cl' = [cl EXCEPT ![c] = NewClient]
    /\ UNCHANGED <<stopped, enqueued, config, ub, nevents, nrecverrs, peers, rhist,
                   enq, shist, closed_by>>

\* The peer of a live client writes an item to its socket.
PeerSend(c) ==
    /\ st[c] = "live"
    /\ ~peer_closed[c]
    /\ budget[c] > 0
    /\ \E it \in ItemsOf(c, <<Len(stream[c]) + 1>>) :
        /\ net_in' = [net_in EXCEPT ![c] = @ \o it.bytes]
        /\ stream' = [stream EXCEPT ![c] = Append(@, it)]
    /\ budget' = [budget EXCEPT ![c] = @ - 1]
    /\ UNCHANGED <<stopped, st, cl, peer_closed, enqueued, config, ub, nevents,
                   nrecverrs, rhist, enq, shist, closed_by>>

\* The peer of a live client shuts its end down.
PeerClose(c) ==
    /\ st[c] = "live"
    /\ ~peer_closed[c]
    /\ peer_closed' = [peer_closed EXCEPT ![c] = TRUE]
    /\ UNCHANGED <<stopped, st, cl, net_in, budget, stream, enqueued, config, ub,
                   nevents, nrecverrs, rhist, enq, shist, closed_by>>

\* client_destroy: the client leaves server->clients and is freed.
\* client_destroy with a slip: the client stays in server->clients with all
\* it holds.
client_destroy_lingers(c, why) ==
    /\ closed_by' = [closed_by EXCEPT ![c] = why]
    /\ UNCHANGED <<st, cl>>

\* client_destroy with a slip: every client leaves server->clients.
client_destroy_all(c, why) ==
    /\ st' = [d \in Clients |-> IF st[d] = "live" THEN "gone" ELSE st[d]]
    /\ cl' = [d \in Clients |-> IF st[d] = "live" THEN NewClient ELSE cl[d]]
    /\ closed_by' = [d \in Clients |->
                        IF st[d] = "live" THEN why ELSE closed_by[d]]

client_destroy(c, why) ==
    /\ st' = [st EXCEPT ![c] = "gone"]
    /\ cl' = [cl EXCEPT ![c] = NewClient]
    /\ closed_by' = [closed_by EXCEPT ![c] = why]

\* client_enqueue_internal_error when client_enqueue__response fails: the
\* client is destroyed and freed, and its drop_after_next_send is written
\* all the same. The write to freed memory goes unnoticed or ends the
\* process, and with it every connection.
client_enqueue_internal_error_fails(c, w) ==
    /\ alloc_fails
    /\ roots' = [roots EXCEPT ![c] = w.roots]
    /\ dispatched' = [dispatched EXCEPT ![c] = w.dispatched]
    /\ calls' = w.calls
    /\ enq' = [enq EXCEPT ![c] = w.enq]
    /\ stale' = stale \cup
          {[client |-> c, field |-> "drop_after_next_send", access |-> "write"]}
    /\ \/ /\ client_destroy(c, "enqueue_failed")
          /\ UNCHANGED aborted
       \/ /\ aborted' = TRUE
          /\ st' = [d \in Clients |-> IF st[d] = "live" THEN "gone" ELSE st[d]]
          /\ cl' = [d \in Clients |-> NewClient]
          /\ closed_by' = [d \in Clients |->
                              IF d = c THEN "enqueue_failed"
                              ELSE IF st[d] = "live" THEN "aborted"
                              ELSE closed_by[d]]

\* The state recv_ready leaves behind when the client lives on.
RecvCommit(c, w) ==
    /\ cl' = [cl EXCEPT ![c] = w.self]
    /\ roots' = [roots EXCEPT ![c] = w.roots]
    /\ dispatched' = [dispatched EXCEPT ![c] = w.dispatched]
    /\ calls' = w.calls
    /\ enq' = [enq EXCEPT ![c] = w.enq]
    /\ UNCHANGED <<st, closed_by>>

NumFatal(c) ==
    Cardinality({i \in 1..Len(enq[c]) : enq[c][i].priority = "SEND_IMMEDIATE"})

\* recv_ready with a slip: a peer that has closed is reported a failed read
\* and the client is kept until that error is sent.
recv_ready_reports_close(c) ==
    LET self == cl[c]
        w == Work(self, c)
        bufferspace == BufSize - read_len(self)
    IN  /\ st[c] = "live"
        /\ NumFatal(c) < MaxFatal
        /\ \/ /\ bufferspace = 0
              /\ RecvCommit(c, client_enqueue_internal_error(w,
                                set_internal_error("EIO", "Buffer overflow")))
              /\ UNCHANGED <<net_in, nrecv, nrecverrs>>
           \/ \* recv: EAGAIN
              /\ bufferspace > 0
              /\ net_in[c] = <<>>
              /\ ~peer_closed[c]
              /\ UNCHANGED <<st, cl, closed_by, rhist, enq, net_in, nrecverrs>>
           \/ \* recv: another error
              /\ bufferspace > 0
              /\ nrecverrs < MaxRecvErrors
              /\ nrecverrs' = nrecverrs + 1
              /\ RecvCommit(c, client_enqueue_internal_error(w,
                                set_internal_error("EIO", "Read failed")))
              /\ UNCHANGED <<net_in, nrecv>>
           \/ \* recv: 0, the peer has closed
              /\ bufferspace > 0
              /\ net_in[c] = <<>>
              /\ peer_closed[c]
              /\ RecvCommit(c, client_enqueue_internal_error(w,
                                set_internal_error("EIO", "Read failed")))
              /\ UNCHANGED <<net_in, nrecv, nrecverrs>>
           \/ \* recv: n > 0 bytes
              /\ bufferspace > 0
              /\ \E n \in 1..Min(bufferspace, Len(net_in[c])) :
                    /\ RecvCommit(c, RecvData(w, c, SubSeq(net_in[c], 1, n)))
                    /\ net_in' = [net_in EXCEPT ![c] =
                                     SubSeq(@, n + 1, Len(@))]
                    /\ nrecv' = [nrecv EXCEPT ![c] = @ + n]
                    /\ UNCHANGED nrecverrs
        /\ UNCHANGED <<stopped, peer_closed, budget, stream, enqueued, config, ub,
                       nevents, shist>>

\* recv_ready, the handler of a read-ready event on client c.
recv_ready(c) ==
    LET self == cl[c]
        w == Work(self, c)
        bufferspace == BufSize - read_len(self)
    IN  /\ st[c] = "live"
        /\ NumFatal(c) < MaxFatal
        /\ \/ /\ bufferspace = 0
              /\ RecvCommit(c, client_enqueue_internal_error(w,
                                set_internal_error("EIO", "Buffer overflow")))
              /\ UNCHANGED <<net_in, nrecv, nrecverrs, ub>>
           \/ /\ bufferspace = 0
              /\ client_enqueue_internal_error_fails(c, w)
              /\ UNCHANGED <<net_in, nrecv, nrecverrs>>
           \/ \* recv: EAGAIN
              /\ bufferspace > 0
              /\ net_in[c] = <<>>
              /\ ~peer_closed[c]
              /\ UNCHANGED <<st, cl, closed_by, rhist, enq, net_in, nrecverrs,
                             ub>>
           \/ \* recv: another error
              /\ bufferspace > 0
              /\ nrecverrs < MaxRecvErrors
              /\ nrecverrs' = nrecverrs + 1
              /\ \/ /\ RecvCommit(c, client_enqueue_internal_error(w,
                                set_internal_error("EIO", "Read failed")))
                    /\ UNCHANGED ub
                 \/ client_enqueue_internal_error_fails(c, w)
              /\ UNCHANGED <<net_in, nrecv>>
           \/ \* recv: 0, the peer has closed
              /\ bufferspace > 0
              /\ net_in[c] = <<>>
              /\ peer_closed[c]
              /\ client_destroy(c, "recv_closed")
              /\ UNCHANGED <<rhist, enq, net_in, nrecverrs, ub>>
           \/ \* recv: n > 0 bytes
              /\ bufferspace > 0
              /\ \E n \in 1..Min(bufferspace, Len(net_in[c])) :
                    /\ \/ /\ RecvCommit(c, RecvData(w, c,
                                               SubSeq(net_in[c], 1, n)))
                          /\ UNCHANGED ub
                       \/ LET w1 == RecvLoop(
                                  [w EXCEPT !.self.read_buffer =
                                      @ \o SubSeq(net_in[c], 1, n)], c)
                          IN  /\ w1.details # NIL
                              /\ client_enqueue_internal_error_fails(c, w1)
                    /\ net_in' = [net_in EXCEPT ![c] =
                                     SubSeq(@, n + 1, Len(@))]
                    /\ nrecv' = [nrecv EXCEPT ![c] = @ + n]
                    /\ UNCHANGED nrecverrs
        /\ UNCHANGED <<stopped, peer_closed, budget, stream, enqueued, config,
                       nevents, shist>>

\* SendLoad with a slip: a queued message is serialized over a pending
\* partial write.
SendLoad_restarts(self) ==
    IF Len(self.response_queue) > 0
    THEN LET item == self.response_queue[1]
             text == json_dumpb(item)
         IN  [self EXCEPT !.write_len = Len(text),
                          !.write_buffer = text,
                          !.write_ptr = [off |-> 0],
                          !.response_queue = Tail(@)]
    ELSE self

\* send_ready up to its call of send: a queued message is serialized unless
\* a partial write is pending.
SendLoad(self) ==
    IF self.write_buffer # NULL THEN self
    ELSE IF Len(self.response_queue) > 0
    THEN LET item == self.response_queue[1]
             text == json_dumpb(item)
         IN  [self EXCEPT !.write_len = Len(text),
                          !.write_buffer = text,
                          !.write_ptr = [off |-> 0],
                          !.response_queue = Tail(@)]
    ELSE self

\* SendTaken with a slip: the cursor stays where it was.
SendTaken_rewound(self, n) == [self EXCEPT !.write_len = @ - n]

\* send_ready after send has taken n bytes.
SendTaken(self, n) ==
    [self EXCEPT !.write_ptr = [off |-> @.off + n], !.write_len = @ - n]

\* SendRest with a slip: the drained write buffer is not released.
SendRest_keeps(self) == client_set_aml_event_mask(self)

\* send_ready from send_eagain on, for a client that is not destroyed.
SendRest(self) ==
    client_set_aml_event_mask(
        IF self.write_len = 0
        THEN [self EXCEPT !.write_buffer = NULL, !.write_ptr = NIL]
        ELSE self)

\* send_ready, the handler of a write-ready event on client c.
send_ready(c) ==
    LET self == SendLoad(cl[c])
        loaded == Len(self.response_queue) # Len(cl[c].response_queue)
    IN  /\ st[c] = "live"
        /\ "AML_EVENT_WRITE" \in cl[c].mask
        /\ deq' = [deq EXCEPT ![c] =
                      IF loaded THEN Append(@, cl[c].response_queue[1]) ELSE @]
        /\ \/ \* nothing to send
              /\ self.write_ptr = NIL
              /\ cl' = [cl EXCEPT ![c] = client_set_aml_event_mask(self)]
              /\ UNCHANGED <<st, closed_by, wire>>
           \/ \* send: EAGAIN
              /\ self.write_ptr # NIL
              /\ cl' = [cl EXCEPT ![c] = SendRest(self)]
              /\ UNCHANGED <<st, closed_by, wire>>
           \/ \* send: another error
              /\ self.write_ptr # NIL
              /\ client_destroy(c, "send_failed")
              /\ UNCHANGED wire
           \/ \* send: n bytes taken
              /\ self.write_ptr # NIL
              /\ \E n \in 1..self.write_len :
                    LET sent == SendTaken(self, n)
                    IN  /\ wire' = [wire EXCEPT ![c] = @ \o
                               SubSeq(self.write_buffer, self.write_ptr.off + 1,
                                      self.write_ptr.off + n)]
                        /\ IF sent.write_len = 0 /\ sent.drop_after_next_send
                           THEN client_destroy(c, "drop_after_next_send")
                           ELSE /\ cl' = [cl EXCEPT ![c] = SendRest(sent)]
                                /\ UNCHANGED <<st, closed_by>>
        /\ UNCHANGED <<stopped, enqueued, config, ub, nevents, nrecverrs, peers,
                       rhist, enq>>

\* ctl_server_enqueue_event: the event is queued for every client that has
\* asked for events; the count of them is returned.
EventNames == {S_client_connected}

\* ctl_server_enqueue_event with a slip: accept_events is not looked at.
ctl_server_enqueue_event_all(event_name, params) ==
    LET packed_event == jsonipc_event_new(event_name, params)
        takes(c) == st[c] = "live"
    IN  /\ ~stopped
        /\ nevents < MaxEvents
        /\ nevents' = nevents + 1
        /\ cl' = [c \in Clients |->
                    IF takes(c)
                    THEN client_enqueue(cl[c], packed_event, "SEND_FIFO")
                    ELSE cl[c]]
        /\ enq' = [c \in Clients |->
                    IF takes(c)
                    THEN Append(enq[c], Enqueued(packed_event, "SEND_FIFO"))
                    ELSE enq[c]]
        /\ enqueued' = Cardinality({c \in Clients : takes(c)})
        /\ UNCHANGED <<stopped, st, config, ub, nrecverrs, peers, rhist, shist,
                       closed_by>>

ctl_server_enqueue_event(event_name, params) ==
    LET packed_event == jsonipc_event_new(event_name, params)
        takes(c) == st[c] = "live" /\ cl[c].accept_events
    IN  /\ ~stopped
        /\ ~aborted
        /\ nevents < MaxEvents
        /\ nevents' = nevents + 1
        /\ cl' = [c \in Clients |->
                    IF takes(c)
                    THEN client_enqueue(cl[c], packed_event, "SEND_FIFO")
                    ELSE cl[c]]
        /\ enq' = [c \in Clients |->
                    IF takes(c)
                    THEN Append(enq[c], Enqueued(packed_event, "SEND_FIFO"))
                    ELSE enq[c]]
        /\ enqueued' = Cardinality({c \in Clients : takes(c)})
        /\ UNCHANGED <<stopped, st, config, ub, nrecverrs, peers, rhist, shist,
                       closed_by>>

\* ctl_server_stop with a slip: the listening socket is closed and the
\* clients are left as they are.
ctl_server_stop_listener_only ==
    /\ ~stopped
    /\ stopped' = TRUE
    /\ UNCHANGED <<st, cl, closed_by, enqueued, config, ub, nevents, nrecverrs,
                   peers, rhist, enq, shist>>

\* ctl_server_stop: every client is destroyed and the listening socket closed.
ctl_server_stop ==
    /\ ~stopped
    /\ ~aborted
    /\ stopped' = TRUE
    /\ st' = [c \in Clients |-> IF st[c] = "live" THEN "gone" ELSE st[c]]
    /\ cl' = [c \in Clients |-> NewClient]
    /\ closed_by' = [c \in Clients |->
                        IF st[c] = "live" THEN "ctl_server_stop" ELSE closed_by[c]]
    /\ UNCHANGED <<enqueued, config, ub, nevents, nrecverrs, peers, rhist, enq,
                   shist>>

Next ==
    \/ on_connection
    \/ \E c \in Clients : PeerSend(c)
    \/ \E c \in Clients : PeerClose(c)
    \/ \E c \in Clients : recv_ready(c)
    \/ \E c \in Clients : send_ready(c)
    \/ \E name \in EventNames :
          ctl_server_enqueue_event(name, [connection_count |-> 1])
    \/ ctl_server_stop

Spec == Init /\ [][Next]_vars

MultiSpec == InitMulti /\ [][Next]_vars

CmdSpec == InitCmd /\ [][Next]_vars

NameSpec == InitNames /\ [][Next]_vars

FailSpec == InitFail /\ [][Next]_vars

\* The socket of a client with something to send does not refuse it for
\* ever: send_ready keeps being run and send keeps taking bytes or failing.
LiveSpec == Init /\ [][Next]_vars /\ \A c \in Clients : WF_vars(send_ready(c))


\* ------------------------------------------------ read-boundary independence
\* The items of a stream that lie wholly within its first n bytes.
RECURSIVE Received(_, _)
Received(items, n) ==
    IF items = <<>> \/ Len(Head(items).bytes) > n THEN <<>>
    ELSE <<Head(items)>> \o Received(Tail(items), n - Len(Head(items).bytes))

\* Every item the peer of c has written is a complete object that fits the
\* read buffer.
WellFormed(c) == \A i \in 1..Len(stream[c]) : stream[c][i].root # NIL

\* recv_ready run on a new client once per item, each item arriving whole in
\* its own read.
RECURSIVE WholeReads(_, _, _)
WholeReads(w, c, items) ==
    IF items = <<>> THEN w
    ELSE WholeReads(RecvData(w, c, Head(items).bytes), c, Tail(items))

FreshWork ==
    [self |-> NewClient, roots |-> <<>>, dispatched |-> <<>>, calls |-> <<>>,
     enq |-> <<>>, details |-> NIL]

\* The responses among the messages given to client_enqueue.
Responses(log) ==
    SelectSeq(log, LAMBDA e : e.msg.kind = "response")

\* C1: for a stream of complete well-formed requests and no failing recv,
\* however the reads cut the stream, the commands dispatched and the replies
\* enqueued so far are those of the requests received so far arriving one
\* whole request per read.
C1_ReadBoundaryIndependent ==
    \A c \in Clients :
        (WellFormed(c) /\ nrecverrs = 0) =>
            LET whole == WholeReads(FreshWork, c, Received(stream[c], nrecv[c]))
            IN  /\ dispatched[c] = whole.dispatched
                /\ Responses(enq[c]) = whole.enq
                /\ {i \in 1..Len(calls) : calls[i].client = c} =
                       1..Len(whole.calls)
                /\ \A i \in 1..Len(whole.calls) : calls[i] = whole.calls[i]

\* C1 witness: a first request has been dispatched and answered, and the
\* read that brought it ended inside the next request, whose first byte
\* waits in the read buffer.
C1_Witness ==
    \E c \in Clients :
        /\ WellFormed(c) /\ nrecverrs = 0
        /\ st[c] = "live"
        /\ Len(stream[c]) = 2
        /\ Len(dispatched[c]) = 1
        /\ Len(roots[c]) = 1
        /\ read_len(cl[c]) = 1
        /\ Len(Responses(enq[c])) = 1


\* ------------------------------------------------------------ reply ordering
IsReply(m) == m.kind = "response" /\ ~IsInternalError(m)

\* The replies to requests among the messages given to client_enqueue.
Replies(log) == SelectSeq(log, LAMBDA e : IsReply(e.msg))

IsSuffix(q, r) ==
    /\ Len(q) <= Len(r)
    /\ q = SubSeq(r, Len(r) - Len(q) + 1, Len(r))

FatalErrorSent(c) ==
    \E i \in 1..(Len(wire[c]) - 1) :
        /\ wire[c][i].b = "text"
        /\ IsInternalError(wire[c][i].item)
        /\ wire[c][i + 1] = CLOSE

\* C3: when send_ready has destroyed a connection for its
\* drop_after_next_send flag, a fatal error has gone to the peer in full.
C3_FatalErrorDeliveredBeforeHangUp ==
    \A c \in Clients :
        closed_by[c] = "drop_after_next_send" => FatalErrorSent(c)

Immediate(log) == SelectSeq(log, LAMBDA e : e.priority = "SEND_IMMEDIATE")

Fifo(log) == SelectSeq(log, LAMBDA e : e.priority = "SEND_FIFO")

Msgs(log) == [i \in 1..Len(log) |-> log[i].msg]

\* What a step adds to the messages given to client_enqueue for c.
NewlyEnqueued(c) == SubSeq(enq'[c], Len(enq[c]) + 1, Len(enq'[c]))

\* The internal errors of a live client that has begun to send none of them
\* stand at the head of its queue, ahead of every other message.
FatalErrorsLead(c) ==
    (st[c] = "live" /\ \A i \in 1..Len(deq[c]) : ~IsInternalError(deq[c][i])) =>
        LET q == cl[c].response_queue
            k == Len(Immediate(enq[c]))
        IN  /\ k <= Len(q)
            /\ \A i \in 1..Len(q) : IsInternalError(q[i]) <=> i <= k

\* C4: an internal error is enqueued SEND_IMMEDIATE and goes to the front of
\* the queue, replies and events go to the back, and send_ready takes the
\* message at the front: nothing queued when a fatal error is enqueued is
\* sent ahead of it.
C4_FatalErrorJumpsTheQueue ==
    [][\A c \in Clients :
          /\ \A i \in 1..Len(enq'[c]) :
                enq'[c][i].priority = "SEND_IMMEDIATE"
                    <=> IsInternalError(enq'[c][i].msg)
          /\ (st'[c] = "live" /\ enq'[c] # enq[c]) =>
                cl'[c].response_queue =
                    Msgs(Immediate(NewlyEnqueued(c))) \o cl[c].response_queue
                        \o Msgs(Fifo(NewlyEnqueued(c)))
          /\ deq'[c] # deq[c] =>
                deq'[c] = Append(deq[c], cl[c].response_queue[1])
          /\ FatalErrorsLead(c)'
          /\ \A i \in 1..Len(deq'[c]) :
                IsInternalError(deq'[c][i]) => i = Len(deq'[c])]_vars

\* C4 witness: an internal error stands at the head of the queue of a live
\* client, ahead of a reply and an event that were queued before it.
C4_Witness ==
    \E c \in Clients :
        /\ st[c] = "live"
        /\ Len(cl[c].response_queue) = 3
        /\ IsInternalError(cl[c].response_queue[1])
        /\ IsReply(cl[c].response_queue[2])
        /\ cl[c].response_queue[3].kind = "event"
        /\ enq[c][Len(enq[c])].priority = "SEND_IMMEDIATE"


\* ------------------------------------------------------ fatal conditions
\* After the whole objects at its head, the buffer holds what is no JSON.
RECURSIVE Malformed(_)
Malformed(buf) ==
    LET r == json_loadb(buf)
    IN  IF r.root # NIL
        THEN Malformed(advance_read_buffer(buf, r.position))
        ELSE r.code = "json_error_invalid_syntax"

\* The bytes a step reads from the socket of c.
BytesRead(c) == SubSeq(net_in[c], 1, nrecv'[c] - nrecv[c])

\* The fatal condition a read-ready event on c meets in a step, by the text
\* of its error.
FatalCondition(c, text) ==
    \/ text = "Buffer overflow" /\ read_len(cl[c]) = BufSize
    \/ text = "Read failed" /\ nrecverrs' # nrecverrs
    \/ /\ text = "invalid json"
       /\ nrecv'[c] > nrecv[c]
       /\ Malformed(cl[c].read_buffer \o BytesRead(c))

\* C5: a read-ready event that meets a full read buffer, a failing recv or
\* malformed bytes enqueues the fatal error at the head of the queue and
\* marks the client drop_after_next_send; and a marked client whose socket
\* goes on taking bytes or failing is destroyed in the end.
C5_FatalConditionLeadsToClosure ==
    /\ [][\A c \in Clients : \A text \in InternalErrorTexts :
            (recv_ready(c) /\ FatalCondition(c, text)) =>
                /\ st'[c] = "live"
                /\ cl'[c].drop_after_next_send
                /\ "AML_EVENT_WRITE" \in cl'[c].mask
                /\ Len(enq'[c]) = Len(enq[c]) + Len(roots'[c]) - Len(roots[c]) + 1
                /\ enq'[c][Len(enq'[c])].priority = "SEND_IMMEDIATE"
                /\ IsInternalError(enq'[c][Len(enq'[c])].msg)
                /\ enq'[c][Len(enq'[c])].msg.data.error = text
                /\ cl'[c].response_queue[1] = enq'[c][Len(enq'[c])].msg]_vars
    /\ \A c \in Clients :
          (st[c] = "live" /\ cl[c].drop_after_next_send) ~> (st[c] # "live")

\* C5 witness: the peer has been sent the whole overflow error and the
\* connection has been destroyed for its mark.
C5_Witness ==
    \E c \in Clients :
        /\ closed_by[c] = "drop_after_next_send"
        /\ \E i \in 1..(Len(wire[c]) - 1) :
              /\ wire[c][i].b = "text"
              /\ IsInternalError(wire[c][i].item)
              /\ wire[c][i].item.data.error = "Buffer overflow"
              /\ wire[c][i + 1] = CLOSE

\* ------------------------------------------------------------- broadcast
Subscribed(c) == st[c] = "live" /\ cl[c].accept_events

\* C6: ctl_server_enqueue_event puts one copy of the event at the back of
\* the queue of every live client that accepts events, which are those that
\* have sent event-receive, leaves every other queue as it is, and returns
\* the number of clients it has queued the event for.
C6_EventToSubscribersOnly ==
    [][/\ \A c \in Clients :
             st'[c] = "live" =>
                (cl'[c].accept_events
                    <=> \E k \in 1..Len(roots'[c]) :
                           roots'[c][k].method = S_event_receive)
       /\ nevents' # nevents =>
             /\ enqueued' = Cardinality({c \in Clients : Subscribed(c)})
             /\ \A c \in Clients :
                   LET q == cl[c].response_queue
                   IN  IF Subscribed(c)
                       THEN /\ Len(cl'[c].response_queue) = Len(q) + 1
                            /\ SubSeq(cl'[c].response_queue, 1, Len(q)) = q
                            /\ cl'[c].response_queue[Len(q) + 1].kind = "event"
                            /\ cl'[c].response_queue[Len(q) + 1].method
                                   \in EventNames
                       ELSE cl'[c].response_queue = q]_vars

\* C6 witness: of two live clients the one that has sent event-receive has
\* the event behind the reply queued before it, the other has none.
C6_Witness ==
    /\ nevents = 1 /\ enqueued = 1
    /\ st[1] = "live" /\ st[2] = "live"
    /\ cl[1].accept_events /\ ~cl[2].accept_events
    /\ Len(cl[1].response_queue) = 2
    /\ IsReply(cl[1].response_queue[1])
    /\ cl[1].response_queue[2].kind = "event"
    /\ cl[2].response_queue = <<>>

\* --------------------------------------------------------- partial writes
RECURSIVE Serialized(_)
Serialized(msgs) ==
    IF msgs = <<>> THEN <<>>
    ELSE json_dumpb(Head(msgs)) \o Serialized(Tail(msgs))

\* The bytes of the message in flight that send has not taken yet.
Unsent(self) ==
    IF self.write_buffer = NULL THEN <<>>
    ELSE SubSeq(self.write_buffer, self.write_ptr.off + 1,
                Len(self.write_buffer))

IsPrefix(p, q) == Len(p) <= Len(q) /\ p = SubSeq(q, 1, Len(p))

\* C7: however few bytes send takes at a time, the bytes sent so far and the
\* bytes of the message in flight still to send make up the serialized
\* messages, none twice and none skipped; and a message in flight on a
\* socket that goes on taking bytes is sent whole in the end.
C7_PartialWritesResume ==
    /\ [](\A c \in Clients :
            IF st[c] = "live"
            THEN /\ wire[c] \o Unsent(cl[c]) = Serialized(deq[c])
                 /\ cl[c].write_len = Len(Unsent(cl[c]))
            ELSE IsPrefix(wire[c], Serialized(deq[c])))
    /\ \A c \in Clients :
          (st[c] = "live" /\ cl[c].write_buffer # NULL)
              ~> (st[c] # "live" \/ wire[c] = Serialized(deq[c]))

\* C7 witness: one message has been sent whole and send has taken the first
\* byte of the next.
C7_Witness ==
    \E c \in Clients :
        /\ st[c] = "live"
        /\ Len(deq[c]) = 2
        /\ Len(wire[c]) = 3
        /\ cl[c].write_len = 1
        /\ cl[c].write_ptr = [off |-> 1]

\* ---------------------------------------------------- rejected requests
BeginsWith(v, prefix) ==
    Len(v) >= Len(prefix) /\ SubSeq(v, 1, Len(prefix)) = prefix

\* An object that is no request: it has no "method".
NoMethod(root) == root.method = NULL

\* A request that names no command, or whose "params" are not those of its
\* command.
BadRequest(root) ==
    LET p == root.params
    IN  \/ root.method \notin {S_help, S_version, S_event_receive, S_set_output}
        \/ /\ root.method = S_set_output
           /\ \/ ~p.present
              \/ p.switch_to = NONSTR \/ p.cycle = NONSTR
              \/ p.switch_to = NULL /\ p.cycle = NULL
              \/ p.switch_to # NULL /\ p.cycle # NULL
              \/ /\ p.switch_to = NULL
                 /\ p.cycle # S_next
                 /\ ~BeginsWith(p.cycle, S_prev)
        \/ /\ root.method = S_help
           /\ p.present
           /\ \/ p.command = NONSTR \/ p.event = NONSTR
              \/ p.command # NULL /\ p.event # NULL

TurnedDown(root) == NoMethod(root) \/ BadRequest(root)

CallsOf(c, k) == SelectSeq(calls, LAMBDA e : e.client = c /\ e.root = k)

\* Every object received has one reply; one that is turned down has an error
\* reply, queued SEND_FIFO with the id IdOf gives, and no callback; any
\* other is dispatched and has the reply of its command; and it takes an
\* internal error to mark a client or to close it for its mark.
RejectionsRecoverable(IdOf(_)) ==
    \A c \in Clients :
        LET R == Replies(enq[c])
        IN  /\ Len(R) = Len(roots[c])
            /\ \A k \in 1..Len(R) :
                  LET root == roots[c][k]
                  IN  /\ R[k].priority = "SEND_FIFO"
                      /\ IF TurnedDown(root)
                         THEN /\ R[k].msg.code \in {"EINVAL", "ENOENT"}
                              /\ R[k].msg.id = IdOf(root)
                              /\ CallsOf(c, k) = <<>>
                         ELSE /\ R[k].msg.code \in {"0", "1"}
                              /\ R[k].msg.id = root.id
            /\ Len(dispatched[c]) =
                  Cardinality({k \in 1..Len(R) : ~TurnedDown(roots[c][k])})
            /\ (cl[c].drop_after_next_send
                    \/ closed_by[c] = "drop_after_next_send")
                  => Immediate(enq[c]) # <<>>

\* C8 as stated: the error reply to every request that is turned down, by
\* request parsing or by parse_command, carries the id of the request.
C8_RejectedWithRequestId == RejectionsRecoverable(LAMBDA root : root.id)

\* C8, amended: a request turned down by parse_command gets one error reply,
\* SEND_FIFO, with its id, and an object turned down by request parsing one
\* with no id; no callback is invoked, the client is neither marked nor
\* closed, and the requests that follow are dispatched and answered.
C8_RejectedWithIdIfParsed ==
    RejectionsRecoverable(LAMBDA root : IF NoMethod(root) THEN NoId ELSE root.id)

\* C8 witness: an object with an id and no "method" has its error reply, and
\* the set-output request after it has been dispatched and answered, on a
\* client that is live and not marked.
C8_Witness ==
    \E c \in Clients :
        /\ st[c] = "live" /\ ~cl[c].drop_after_next_send
        /\ Len(roots[c]) = 2
        /\ NoMethod(roots[c][1]) /\ roots[c][1].id = <<1>>
        /\ roots[c][2] = Root(S_set_output, Params(EDP1, NULL, NULL, NULL), <<2>>)
        /\ Len(Replies(enq[c])) = 2
        /\ Len(CallsOf(c, 2)) = 1

\* ------------------------------------------------------------- isolation
\* C9: a read-ready or write-ready event on a client, whatever comes of it,
\* leaves every other client as it is: its read buffer, queue, write buffer
\* and flags, and its place in server->clients.
C9_ClientsIsolated ==
    [][\A a \in Clients :
          (recv_ready(a) \/ send_ready(a)) =>
              \A b \in Clients \ {a} : cl'[b] = cl[b] /\ st'[b] = st[b]]_vars

\* C9 witness: the first client has been destroyed after its fatal error
\* while the second lives on with half a request in its read buffer.
C9_Witness ==
    /\ closed_by[1] = "drop_after_next_send"
    /\ st[2] = "live"
    /\ read_len(cl[2]) = 1

\* ------------------------------------------------------------ set-output
\* C10: an accepted set-output request with "switch-to" alone invokes
\* on_output_switch once with that name and nothing else, one with "cycle"
\* alone invokes on_output_cycle once with its direction and nothing else,
\* and the reply is the response of the callback.
C10_SetOutputForwarded ==
    \A c \in Clients : \A k \in 1..Len(roots[c]) :
        LET root == roots[c][k]
            p == root.params
            reply == Replies(enq[c])[k].msg
        IN  (root.method = S_set_output /\ ~TurnedDown(root)) =>
               IF p.cycle = NULL
               THEN /\ Len(CallsOf(c, k)) = 1
                    /\ CallsOf(c, k)[1].fn = "on_output_switch"
                    /\ CallsOf(c, k)[1].arg = p.switch_to
                    /\ reply.code = on_output_switch(p.switch_to).code
                    /\ reply.data = on_output_switch(p.switch_to).data
               ELSE LET direction == IF p.cycle = S_next
                                     THEN "OUTPUT_CYCLE_FORWARD"
                                     ELSE "OUTPUT_CYCLE_REVERSE"
                    IN  /\ Len(CallsOf(c, k)) = 1
                        /\ CallsOf(c, k)[1].fn = "on_output_cycle"
                        /\ CallsOf(c, k)[1].arg = direction
                        /\ reply.code = on_output_cycle(direction).code
                        /\ reply.data = on_output_cycle(direction).data


\* ------------------------------------------------------------------ help
\* The reply to the k-th object received from c.
ReplyTo(c, k) == Replies(enq[c])[k].msg

CommandNames == <<S_help, S_version, S_event_receive, S_set_output>>

EventNamesListed == <<S_client_connected, S_client_disconnected>>

\* The combined catalog: the names of all commands and of all events.
Catalog == [commands |-> CommandNames, events |-> EventNamesListed]

InList(name, list) == \E i \in 1..Len(list) : list[i] = name

\* The entry of a name in a half of the registry: its description and its
\* parameter list.
EntryOf(name, half) ==
    LET i == CHOOSE j \in 1..Len(half) : half[j].name = name
    IN  [name |-> name, description |-> half[i].description,
         params |-> half[i].params]

\* A help request that is not turned down, and what it asks for.
HelpAsked(root) == root.method = S_help /\ ~TurnedDown(root)

HelpCommand(root) == IF root.params.present THEN root.params.command ELSE NULL

HelpEvent(root) == IF root.params.present THEN root.params.event ELSE NULL

\* C11: help is answered with code 0 and, with command=X, the entry of X
\* when X is a command name, with event=Y the entry of Y when Y is an event
\* name, and in every other case (no argument, a name that is unknown, in
\* the other half, or empty) the combined catalog.
C11_HelpFallsBackToCatalog ==
    \A c \in Clients : \A k \in 1..Len(roots[c]) :
        LET root == roots[c][k]
            X == HelpCommand(root)
            Y == HelpEvent(root)
        IN  HelpAsked(root) =>
               /\ ReplyTo(c, k).code = "0"
               /\ ReplyTo(c, k).id = root.id
               /\ ReplyTo(c, k).data =
                     IF X # NULL /\ InList(X, CommandNames)
                     THEN EntryOf(X, cmd_list)
                     ELSE IF Y # NULL /\ InList(Y, EventNamesListed)
                     THEN EntryOf(Y, evt_list)
                     ELSE Catalog

\* C11 witness: help for a command that is an event name, not a command
\* name, has been answered with the combined catalog.
C11_Witness ==
    \E c \in Clients :
        /\ Len(roots[c]) = 1
        /\ roots[c][1].method = S_help
        /\ roots[c][1].params.present
        /\ roots[c][1].params.command = S_client_connected
        /\ Len(Replies(enq[c])) = 1
        /\ ReplyTo(c, 1).code = "0"
        /\ ReplyTo(c, 1).data = Catalog


\* --------------------------------------------------------- unknown methods
\* Every received object whose method is in Unknown has an ENOENT error
\* reply that lists the command names and carries its id, and is not
\* dispatched; every other request has another reply.
UnknownMethodsNotFound(Unknown(_)) ==
    \A c \in Clients :
        /\ \A k \in 1..Len(roots[c]) :
              LET root == roots[c][k]
              IN  IF Unknown(root.method)
                  THEN /\ ReplyTo(c, k).code = "ENOENT"
                       /\ ReplyTo(c, k).data.commands = CommandNames
                       /\ ReplyTo(c, k).id = root.id
                       /\ CallsOf(c, k) = <<>>
                  ELSE ReplyTo(c, k).code # "ENOENT"
        /\ Len(dispatched[c]) <=
              Cardinality({k \in 1..Len(roots[c]) :
                              InList(roots[c][k].method, CommandNames)})

\* C12 as stated: a request whose method is no command name, be it empty,
\* missing or the name of an event, has an ENOENT error reply that lists
\* exactly the command names, and no command is dispatched for it.
C12_UnknownOrMissingMethodNotFound ==
    UnknownMethodsNotFound(LAMBDA m : ~InList(m, CommandNames))

\* C12, amended: so it is for a method that is a string and no command name;
\* an object with no method is turned down before parse_command sees it and
\* its error reply is not ENOENT.
C12_UnknownMethodNotFound ==
    UnknownMethodsNotFound(LAMBDA m : m # NULL /\ ~InList(m, CommandNames))

\* C12 witness: the request with the method "client-connected", the name of
\* an event, has its ENOENT reply with the four command names.
C12_Witness ==
    \E c \in Clients :
        /\ Len(roots[c]) = 1
        /\ roots[c][1].method = S_client_connected
        /\ Len(Replies(enq[c])) = 1
        /\ ReplyTo(c, 1).code = "ENOENT"
        /\ ReplyTo(c, 1).data.commands =
              <<S_help, S_version, S_event_receive, S_set_output>>
        /\ dispatched[c] = <<>>


\* ------------------------------------------------------- values of "cycle"
\* A set-output request with a string "cycle" and no "switch-to".
CycleAsked(root) ==
    /\ root.method = S_set_output
    /\ root.params.present
    /\ root.params.switch_to = NULL
    /\ root.params.cycle \notin {NULL, NONSTR}

CycleCalled(c, k, direction) ==
    /\ Len(CallsOf(c, k)) = 1
    /\ CallsOf(c, k)[1].fn = "on_output_cycle"
    /\ CallsOf(c, k)[1].arg = direction

Destroyed(c) == closed_by[c] # "none"

CallsFrom(c) == SelectSeq(calls, LAMBDA e : e.client = c)

\* C14: a destroyed client is out of server->clients and holds no queue and
\* no write buffer, and from then on no byte is sent on it, nothing is
\* enqueued for it, nothing is read, dispatched or called for it, and it
\* never comes back.
C14_DestroyedStaysSilent ==
    [][\A c \in Clients :
          /\ Destroyed(c)' => st'[c] = "gone" /\ cl'[c] = NewClient
          /\ Destroyed(c) =>
                /\ Destroyed(c)'
                /\ wire'[c] = wire[c]
                /\ deq'[c] = deq[c]
                /\ enq'[c] = enq[c]
                /\ nrecv'[c] = nrecv[c]
                /\ roots'[c] = roots[c]
                /\ dispatched'[c] = dispatched[c]
                /\ CallsFrom(c)' = CallsFrom(c)]_vars

\* C14 witness: a client that asked for events was destroyed with a message
\* queued and unsent, and an event has since gone to the other client alone.
C14_Witness ==
    /\ Destroyed(1) /\ st[2] = "live"
    /\ Len(enq[1]) > Len(deq[1])
    /\ \E k \in 1..Len(roots[1]) : roots[1][k].method = S_event_receive
    /\ \A i \in 1..Len(enq[1]) : enq[1][i].msg.kind # "event"
    /\ nevents = 1 /\ enqueued = 1
    /\ Len(cl[2].response_queue) > 0
    /\ cl[2].response_queue[Len(cl[2].response_queue)].kind = "event"


\* --------------------------------------------------------------- shutdown
\* C15: ctl_server_stop destroys every live client, whatever it has queued
\* or in flight, and sends nothing; no client is destroyed twice; and once
\* the server has stopped no client is live, none is accepted and none is
\* read from or written to.
C15_StopDestroysAll ==
    [][/\ (~stopped /\ stopped') =>
             \A c \in Clients :
                 /\ st[c] = "live" =>
                       /\ st'[c] = "gone"
                       /\ closed_by'[c] = "ctl_server_stop"
                       /\ cl'[c] = NewClient
                 /\ st[c] # "live" => st'[c] = st[c] /\ closed_by'[c] = closed_by[c]
                 /\ wire'[c] = wire[c] /\ deq'[c] = deq[c]
       /\ \A c \in Clients : Destroyed(c) => closed_by'[c] = closed_by[c]
       /\ stopped =>
             /\ stopped'
             /\ \A c \in Clients : st[c] # "live"
             /\ st' = st /\ cl' = cl /\ wire' = wire /\ deq' = deq
             /\ enq' = enq /\ nrecv' = nrecv /\ roots' = roots
             /\ dispatched' = dispatched /\ calls' = calls]_vars

\* C15 witness: the server has stopped; one client was destroyed by it with
\* one byte of a message sent and another message queued, the other was
\* destroyed before and no slot is live.
C15_Witness ==
    /\ stopped
    /\ \E c \in Clients :
          /\ closed_by[c] = "ctl_server_stop"
          /\ Len(wire[c]) = 1
          /\ Len(deq[c]) = 1
          /\ Len(enq[c]) = 2
    /\ \E c \in Clients : closed_by[c] \notin {"none", "ctl_server_stop"}
    /\ \A c \in Clients : st[c] # "live"


\* ------------------------------------------------------- the write buffer
\* C16: between handlers write_buffer is set iff write_len > 0 iff write_ptr
\* is set; the buffer holds the serialized message last taken off the queue
\* and the bytes sent of it plus write_len are its length; and a message is
\* taken off the queue only when there is no write buffer.
C16_OneWriteBuffer ==
    [][\A c \in Clients :
          LET self == cl'[c]
          IN  /\ (self.write_buffer # NULL) <=> (self.write_len > 0)
              /\ (self.write_ptr # NIL) <=> (self.write_len > 0)
              /\ self.write_buffer # NULL =>
                    /\ deq'[c] # <<>>
                    /\ self.write_buffer = json_dumpb(deq'[c][Len(deq'[c])])
                    /\ self.write_ptr.off + self.write_len
                          = Len(self.write_buffer)
              /\ deq'[c] # deq[c] =>
                    /\ cl[c].write_buffer = NULL
                    /\ Len(deq'[c]) = Len(deq[c]) + 1
                    /\ Len(cl'[c].response_queue) < Len(cl[c].response_queue)
                          \/ st'[c] # "live"]_vars

\* C16 witness: one byte of a message is still to send while the next
\* message waits in the queue.
C16_Witness ==
    \E c \in Clients :
        /\ st[c] = "live"
        /\ cl[c].write_buffer # NULL
        /\ cl[c].write_ptr = [off |-> 1]
        /\ cl[c].write_len = 1
        /\ Len(cl[c].response_queue) > 0


\* -------------------------------------------------------- the read buffer
\* The values whose complete texts lead the bytes buf, in order, and the
\* bytes that follow the last of them.
RECURSIVE Extracted(_)
Extracted(buf) ==
    LET r == json_loadb(buf)
    IN  IF r.root = NIL THEN [values |-> <<>>, rest |-> buf]
        ELSE LET e == Extracted(SubSeq(buf, r.position + 1, Len(buf)))
             IN  [values |-> <<r.root>> \o e.values, rest |-> e.rest]

\* C17: the read buffer holds at most BufSize bytes; a read puts exactly the
\* bytes received behind the bytes held; the extracted values are those whose
\* complete texts lead the buffer, their bytes and no others leave it, and
\* what follows them stays in order at its head; a read that would block, an
\* incomplete value and a syntax error take nothing out of the buffer.
C17_ReadBufferKeepsBytes ==
    [][\A c \in Clients :
          /\ read_len(cl'[c]) \in 0..BufSize
          /\ (st[c] = "live" /\ st'[c] = "live") =>
                LET held == cl[c].read_buffer \o BytesRead(c)
                    e == Extracted(held)
                    r == json_loadb(held)
                IN  /\ cl'[c].read_buffer = e.rest
                    /\ roots'[c] = roots[c] \o e.values
                    /\ cl'[c].read_buffer
                          = SubSeq(held, Len(held) - read_len(cl'[c]) + 1,
                                   Len(held))
                    /\ nrecv'[c] = nrecv[c] =>
                          cl'[c].read_buffer = cl[c].read_buffer
                    /\ r.root = NIL => cl'[c].read_buffer = held]_vars

\* C17 witness: a value was extracted and the bytes read after it, an
\* incomplete value, are at the head of the read buffer.
C17_Witness ==
    \E c \in Clients :
        /\ st[c] = "live"
        /\ Len(roots[c]) = 1
        /\ Len(stream[c]) = 2
        /\ read_len(cl[c]) > 0
        /\ nrecv[c] = Len(stream[c][1].bytes) + read_len(cl[c])
        /\ cl[c].read_buffer = SubSeq(stream[c][2].bytes, 1, read_len(cl[c]))
        /\ json_loadb(cl[c].read_buffer).code
              = "json_error_premature_end_of_input"


\* ------------------------------------------------------ the event mask
\* C18: between handlers every live client has read interest armed, and
\* write interest armed iff its response queue is not empty or a partially
\* sent buffer remains.
C18_InterestMatchesWork ==
    \A c \in Clients :
        st[c] = "live" =>
            /\ "AML_EVENT_READ" \in cl[c].mask
            /\ "AML_EVENT_WRITE" \in cl[c].mask
                  <=> (Len(cl[c].response_queue) > 0 \/ cl[c].write_len > 0)

\* C18 witness: a send has taken part of a message, the queue is empty and
\* write interest is armed for the rest.
C18_Witness ==
    \E c \in Clients :
        /\ st[c] = "live"
        /\ Len(cl[c].response_queue) = 0
        /\ cl[c].write_len > 0
        /\ Len(wire[c]) > 0
        /\ cl[c].mask = {"AML_EVENT_READ", "AML_EVENT_WRITE"}


\* ------------------------------------------------------------ end of file
\* A read-ready event on c for which recv returns 0: the peer has closed and
\* every byte it wrote has been read.
RecvZero(c) ==
    /\ recv_ready(c)
    /\ read_len(cl[c]) < BufSize
    /\ net_in[c] = <<>>
    /\ peer_closed[c]
    /\ nrecverrs' = nrecverrs

\* A read-ready event on c for which recv reports that it would block.
RecvWouldBlock(c) ==
    /\ recv_ready(c)
    /\ read_len(cl[c]) < BufSize
    /\ net_in[c] = <<>>
    /\ ~peer_closed[c]
    /\ nrecverrs' = nrecverrs

\* C19: when recv returns 0 the client is destroyed in that run of
\* recv_ready, whether marked drop_after_next_send or not, and nothing is
\* enqueued, sent, extracted, dispatched or called, whatever the read buffer
\* holds; a client is destroyed for that reason in no other case; and when
\* recv would block nothing changes.
C19_PeerCloseDestroysQuietly ==
    [][\A c \in Clients :
          /\ RecvZero(c) =>
                /\ st'[c] = "gone"
                /\ cl'[c] = NewClient
                /\ closed_by'[c] = "recv_closed"
                /\ enq' = enq /\ wire' = wire /\ deq' = deq
                /\ roots' = roots /\ dispatched' = dispatched
                /\ calls' = calls /\ nrecv' = nrecv
          /\ (closed_by[c] = "none" /\ closed_by'[c] = "recv_closed") =>
                RecvZero(c)
          /\ RecvWouldBlock(c) => UNCHANGED vars]_vars

\* C19 witness: the peer closed after part of a request, which was read and
\* is thrown away with the client, nothing having been enqueued for it.
C19_Witness ==
    \E c \in Clients :
        /\ closed_by[c] = "recv_closed"
        /\ nrecv[c] > 0
        /\ roots[c] = <<>>
        /\ enq[c] = <<>>


\* ---------------------------------------------------------- event-receive
\* The objects received from c that ask for event-receive.
EventReceives(c) ==
    {k \in 1..Len(roots[c]) : roots[c][k].method = S_event_receive}

\* C20: every event-receive is answered with code 0 and no data and invokes
\* no callback; a live client accepts events iff it has asked for
\* event-receive, once or more; nothing but its destruction clears
\* accept_events; and an accepted connection starts with it clear.
C20_EventReceiveIdempotent ==
    /\ [](\A c \in Clients :
            /\ \A k \in EventReceives(c) :
                  /\ ReplyTo(c, k).code = "0"
                  /\ ReplyTo(c, k).data = NIL
                  /\ ReplyTo(c, k).id = roots[c][k].id
                  /\ CallsOf(c, k) = <<>>
            /\ st[c] = "live" =>
                  (cl[c].accept_events <=> EventReceives(c) # {}))
    /\ [][\A c \in Clients :
            /\ (st[c] = "live" /\ cl[c].accept_events /\ st'[c] = "live") =>
                  cl'[c].accept_events
            /\ (st[c] = "free" /\ st'[c] = "live") =>
                  ~cl'[c].accept_events /\ roots'[c] = <<>>]_vars

\* C20 witness: a client has asked for event-receive twice, both requests
\* have been answered with success, and it accepts events.
C20_Witness ==
    \E c \in Clients :
        /\ st[c] = "live"
        /\ EventReceives(c) = {1, 2}
        /\ ReplyTo(c, 1).code = "0" /\ ReplyTo(c, 2).code = "0"
        /\ cl[c].accept_events


\* ----------------------------------------------------- access after free
\* C21: no field of a client is read or written after the client has been
\* destroyed.
C21_NoAccessAfterDestroy == stale = {}


\* ------------------------------------------------- requests after the mark
\* C22: for a client marked drop_after_next_send no command is dispatched,
\* no action callback is invoked and accept_events does not change.
C22_NoDispatchAfterMark ==
    [][\A c \in Clients :
          (st[c] = "live" /\ cl[c].drop_after_next_send) =>
              /\ dispatched'[c] = dispatched[c]
              /\ CallsFrom(c)' = CallsFrom(c)
              /\ st'[c] = "live" =>
                    cl'[c].accept_events = cl[c].accept_events]_vars


\* ------------------------------------------------------------ wire framing
\* The messages but the last.
Front(msgs) == SubSeq(msgs, 1, Len(msgs) - 1)

\* C23: the bytes sent on a connection only grow, and are the whole texts of
\* the messages dequeued before the last followed by a prefix of the text of
\* the last; and an enqueue on a live client, at the head of the queue or at
\* its back, leaves the write buffer, its cursor, the bytes sent and the
\* messages dequeued as they are.
C23_FramingKept ==
    [][\A c \in Clients :
          /\ IsPrefix(wire[c], wire'[c])
          /\ IsPrefix(wire'[c], Serialized(deq'[c]))
          /\ deq'[c] # <<>> =>
                IsPrefix(Serialized(Front(deq'[c])), wire'[c])
          /\ (st[c] = "live" /\ st'[c] = "live" /\ enq'[c] # enq[c]) =>
                /\ cl'[c].write_buffer = cl[c].write_buffer
                /\ cl'[c].write_ptr = cl[c].write_ptr
                /\ cl'[c].write_len = cl[c].write_len
                /\ wire'[c] = wire[c]
                /\ deq'[c] = deq[c]]_vars

\* C23 witness: a fatal error was put at the head of the queue while a
\* message was in the write buffer, and the send that ended the connection
\* left that message whole on the wire.
C23_Witness ==
    \E c \in Clients :
        /\ closed_by[c] = "drop_after_next_send"
        /\ Len(enq[c]) = 2
        /\ enq[c][2].priority = "SEND_IMMEDIATE"
        /\ deq[c] = <<enq[c][1].msg>>
        /\ wire[c] = json_dumpb(enq[c][1].msg)


\* ------------------------------------------------- one fatal error queued
\* The internal errors in a response queue.
InternalErrors(queue) ==
    {i \in 1..Len(queue) : IsInternalError(queue[i])}

\* C24: the response queue of a client holds at most one internal error, and
\* a read-ready event on a client marked drop_after_next_send enqueues
\* nothing.
C24_OneFatalErrorQueued ==
    [][\A c \in Clients :
          /\ Cardinality(InternalErrors(cl'[c].response_queue)) <= 1
          /\ (st[c] = "live" /\ cl[c].drop_after_next_send /\ recv_ready(c)) =>
                enq'[c] = enq[c]]_vars


\* ---------------------------------------------------- replies on the wire
\* The whole text of message m lies on the wire to the peer of c.
OnWire(c, m) ==
    \E i \in 1..(Len(wire[c]) - 1) :
        /\ wire[c][i] = json_dumpb(m)[1]
        /\ wire[c][i + 1] = CLOSE

\* C25: when a connection has been closed by send_ready for its
\* drop_after_next_send flag, with no failed recv and the peer's end open,
\* the reply of every command dispatched for it has gone to the peer whole.
C25_DispatchedAnswered ==
    \A c \in Clients :
        (closed_by[c] = "drop_after_next_send" /\ nrecverrs = 0
            /\ ~peer_closed[c]) =>
            \A k \in 1..Len(roots[c]) :
                ~TurnedDown(roots[c][k]) => OnWire(c, ReplyTo(c, k))

=============================================================================
